---- MODULE Spec2Model ----
(***************************************************************************)
(* A model of the BBTF detector-response simulator: the parameter store    *)
(* (parameter_handler.py), the stages and their binding (block.py), the    *)
(* pipeline (model.py), the samplers the pipeline draws from               *)
(* (generator.py) and the interpolation tables (interp.py).                *)
(*                                                                         *)
(* Numbers.  Parameter values, probabilities and truncation bounds are     *)
(* fixed-point integers in units of 1e-4, so that the defaults of          *)
(* ParameterHandler.__init__ are exact (w = 13.8e-3 is 138, lindhard = 1.0 *)
(* is 10000).  Arithmetic is the arithmetic of finite real numbers.        *)
(*                                                                         *)
(* Python values.  An argument is a record tagged with its Python type, so *)
(* that the isinstance dispatch of the code is a test on the tag.          *)
(***************************************************************************)
EXTENDS Integers, Sequences, FiniteSets, TLC

VARIABLES
    store,      \* ParameterHandler._parameter_dict : name -> value
    res,        \* the last call on the store: its arguments and its outcome
    op,         \* the name of the last operation
    blocks,     \* Model.blocks : the stage names in dict order, and the stages
    rebound,    \* the stages the last call bound
    pc,         \* XENON1T_ERmTIModel.simulate : the stage to call next
    env,        \* simulate's arguments and local variables : name -> tensor
    calls,      \* the stage calls simulate has made, with the variables passed
    ret,        \* what simulate returned
    edges,      \* what get_network_edges returned
    tn,         \* a truncated_normal call: its bounds, its draw, its outcome
    gen,        \* a sampler call: its parameter shapes, its shape, its outcome
    lin,        \* a Linear1D table, the queries of its last call, its outcome
    grid        \* a NN_LinearGrid table, the query of its last call, its outcome

storeVars == <<store, res, op, blocks, rebound>>

simVars == <<pc, env, calls, ret>>

interpVars == <<lin, grid>>

vars == <<store, res, op, blocks, rebound, pc, env, calls, ret, edges, tn, gen,
          lin, grid>>

(***************************************************************************)
(* Bounds and input sets                                                   *)
(***************************************************************************)
\* longest list of names (and of values) passed to one call
MaxKeys == 2

\* names the callers ask for: of the first pool two exist and one does not,
\* of the second one exists and two do not
SetPool == {"w", "fano", "typo"}

MissingPool == {"w", "typo", "W"}

\* numeric values the callers set one at a time (units of 1e-4)
NumVals == {1, 2}

SeqsUpTo(S, n) == UNION {[1..k -> S] : k \in 0..n}

Range(s) == {s[i] : i \in 1..Len(s)}

NoDup(s) == \A i, j \in 1..Len(s) : i # j => s[i] # s[j]

(***************************************************************************)
(* Python arguments                                                        *)
(***************************************************************************)
\* keys : a str, a list of str, a dict (insertion-ordered keys with their
\* values), or anything else (an int, a tuple, None)
KStr(n)      == [t |-> "str",   names |-> <<n>>, vals |-> <<>>]
KList(ns)    == [t |-> "list",  names |-> ns,    vals |-> <<>>]
KDict(ns,vs) == [t |-> "dict",  names |-> ns,    vals |-> vs]
KOther       == [t |-> "other", names |-> <<>>,  vals |-> <<>>]

\* vals : None, an int or float, a non-numeric object without a length, or
\* a sized collection of numbers (a list, or a dict's values view)
VNone     == [t |-> "none", num |-> 0, items |-> <<>>]
VNum(n)   == [t |-> "num",  num |-> n, items |-> <<>>]
VObj      == [t |-> "obj",  num |-> 0, items |-> <<>>]
VList(xs) == [t |-> "list", num |-> 0, items |-> xs]

\* the lists of values: <<>>, <<1>>, <<1, 2>>, ... so that each position of
\* a list carries its own value, up to one longer than the longest key list
Ascending(k) == [i \in 1..k |-> i]

ValLists == {VList(Ascending(k)) : k \in 0..(MaxKeys + 1)}

ValArgs == {VNone, VObj} \cup {VNum(n) : n \in NumVals} \cup ValLists

\* the vals passed beside a dict
DictVals == {VNone, VList(<<2, 1>>)}

NameLists(pool) == SeqsUpTo(pool, MaxKeys)

DictArgs(pool) ==
    {KDict(ns, Ascending(Len(ns))) : ns \in {s \in NameLists(pool) : NoDup(s)}}

StrArgs(pool) == {KStr(n) : n \in pool}

ListArgs(pool) == {KList(ns) : ns \in NameLists(pool)}

KeyArgs(pool) == StrArgs(pool) \cup ListArgs(pool) \cup DictArgs(pool) \cup {KOther}

(***************************************************************************)
(* Outcomes of a call                                                      *)
(***************************************************************************)
\* the message of a failure: its text and the names formatted into it
Msg(text, ns) == [text |-> text, names |-> ns]

Return(v)    == [outcome |-> "return", exc |-> "",  msg |-> Msg("", <<>>), value |-> v]
Raise(e, m)  == [outcome |-> "raise",  exc |-> e,   msg |-> m,
                 value |-> [t |-> "none"]]

PyNone == [t |-> "none"]

(***************************************************************************)
(* ParameterHandler                                                        *)
(***************************************************************************)
ParameterHandlerInit ==
    [w |-> 138, ex_ion_ratio |-> 1000, lindhard |-> 10000, gamma |-> 1240,
     omega |-> 310000, delta |-> 2400, q0 |-> 11300, q1 |-> 4700,
     q2 |-> 410, q3 |-> 17000, field |-> 1200000, fano |-> 590]

\* d[k] = v of a Python dict: overwrites k, or creates it
DictSet(d, k, v) == [x \in DOMAIN d \cup {k} |-> IF x = k THEN v ELSE d[x]]

\* for key, val in zip(keys, vals): d[key] = val
RECURSIVE ZipAssign(_, _, _)
ZipAssign(d, ks, vs) ==
    IF ks = <<>> \/ vs = <<>> THEN d
    ELSE ZipAssign(DictSet(d, Head(ks), Head(vs)), Tail(ks), Tail(vs))

\* the loop stopping at the first absent key
NotExistFirst(d, ks) ==
    LET all == SelectSeq(ks, LAMBDA k : k \notin DOMAIN d)
    IN  IF all = <<>> THEN <<>> ELSE <<Head(all)>>

\* the loop of check_parameter_exist over a list: the absent keys, in order
NotExistList(d, ks) == SelectSeq(ks, LAMBDA k : k \notin DOMAIN d)

\* check_parameter_exist(keys, return_not_exist)
CheckParameterExist(d, keys, return_not_exist) ==
    IF keys.t \in {"list", "dict"} THEN
        LET not_exist == NotExistList(d, keys.names)
            all_exist == (not_exist = <<>>)
        IN  IF return_not_exist
            THEN Return([t |-> "pair", all_exist |-> all_exist,
                         not_exist |-> [t |-> "list", names |-> not_exist]])
            ELSE Return([t |-> "bool", all_exist |-> all_exist])
    ELSE IF keys.t = "str" THEN
        IF return_not_exist
        THEN Return([t |-> "pair", all_exist |-> (keys.names[1] \in DOMAIN d),
                     not_exist |-> [t |-> "str", names |-> keys.names]])
        ELSE Return([t |-> "bool", all_exist |-> (keys.names[1] \in DOMAIN d)])
    ELSE Raise("ValueError", Msg("keys must be a str or a list of str!", <<>>))

\* __getitem__(keys)
GetItem(d, keys) ==
    IF keys.t = "list" THEN
        Return([t |-> "array", items |-> [i \in 1..Len(keys.names) |-> d[keys.names[i]]]])
    ELSE IF keys.t = "str" THEN
        Return([t |-> "num", items |-> <<d[keys.names[1]]>>])
    ELSE Raise("ValueError", Msg("keys must be a str or a list of str!", <<>>))

\* get_parameter(keys)
GetParameter(d, keys) ==
    LET chk == CheckParameterExist(d, keys, TRUE)
    IN  IF chk.outcome = "raise" THEN chk
        ELSE IF ~chk.value.all_exist
        THEN Raise("AssertionError", Msg("%s not found!", chk.value.not_exist.names))
        ELSE GetItem(d, keys)

\* the list branch with the loop run before the length assertion
SetListLoopFirst(d, ks, vals) ==
    IF vals.t # "list"
    THEN [store |-> d, r |-> Raise("TypeError", Msg("object has no len()", <<>>))]
    ELSE IF Len(ks) # Len(vals.items)
    THEN [store |-> ZipAssign(d, ks, vals.items),
          r |-> Raise("AssertionError", Msg("keys must have the same length as vals!", <<>>))]
    ELSE [store |-> ZipAssign(d, ks, vals.items), r |-> Return(PyNone)]

\* the list branch of set_parameter: the length assertion, then the loop
SetList(d, ks, vals) ==
    IF vals.t # "list"
    THEN [store |-> d, r |-> Raise("TypeError", Msg("object has no len()", <<>>))]
    ELSE IF Len(ks) # Len(vals.items)
    THEN [store |-> d,
          r |-> Raise("AssertionError", Msg("keys must have the same length as vals!", <<>>))]
    ELSE [store |-> ZipAssign(d, ks, vals.items), r |-> Return(PyNone)]

\* the str branch of set_parameter
SetStr(d, k, vals) ==
    IF vals.t # "num"
    THEN [store |-> d,
          r |-> Raise("AssertionError",
                      Msg("if there is only one key, val must be either float or int!", <<>>))]
    ELSE [store |-> DictSet(d, k, vals.num), r |-> Return(PyNone)]

\* set_parameter without its existence assertion
SetGuardTypeOnly(d, keys) ==
    LET chk == CheckParameterExist(d, keys, TRUE)
    IN  IF chk.outcome = "raise" THEN chk ELSE Return(PyNone)

\* the existence assertion that opens set_parameter
SetGuard(d, keys) ==
    LET chk == CheckParameterExist(d, keys, TRUE)
    IN  IF chk.outcome = "raise" THEN chk
        ELSE IF ~chk.value.all_exist
        THEN Raise("AssertionError", Msg("%s not found!", chk.value.not_exist.names))
        ELSE Return(PyNone)

\* set_parameter with the dict branch passing on the caller's vals in place
\* of keys.values()
SetParameterDictPassesVals(d, keys, vals) ==
    LET g == SetGuard(d, keys)
    IN  IF g.outcome = "raise" THEN [store |-> d, r |-> g]
        ELSE IF keys.t = "list" THEN SetList(d, keys.names, vals)
        ELSE IF keys.t = "dict" THEN SetList(d, keys.names, vals)
        ELSE IF keys.t = "str" THEN SetStr(d, keys.names[1], vals)
        ELSE [store |-> d,
              r |-> Raise("ValueError", Msg("keys must be a str or a list of str!", <<>>))]

\* set_parameter(keys, vals): the new store and the outcome.  The dict
\* branch calls set_parameter again with list(keys.keys()) and keys.values(),
\* which passes the guard again and takes the list branch.
SetParameter(d, keys, vals) ==
    LET g == SetGuard(d, keys)
    IN  IF g.outcome = "raise" THEN [store |-> d, r |-> g]
        ELSE IF keys.t = "list" THEN SetList(d, keys.names, vals)
        ELSE IF keys.t = "dict" THEN
            LET g2 == SetGuard(d, KList(keys.names))
            IN  IF g2.outcome = "raise" THEN [store |-> d, r |-> g2]
                ELSE SetList(d, keys.names, VList(keys.vals))
        ELSE IF keys.t = "str" THEN SetStr(d, keys.names[1], vals)
        ELSE [store |-> d,
              r |-> Raise("ValueError", Msg("keys must be a str or a list of str!", <<>>))]

(***************************************************************************)
(* Stages (block.py)                                                       *)
(***************************************************************************)
EmptyDict == [x \in {} |-> 0]

\* _BlockBase.__init__ ; attrs holds the attributes a subclass or a binding
\* adds to the instance
BlockBase ==
    [param_names |-> <<>>, param_values |-> <<>>, param_dict |-> EmptyDict,
     attrs |-> EmptyDict, input |-> <<>>, output |-> <<>>]

\* the binding without its setattr loop
UpdateWithoutSetattr(b, d) ==
    LET chk == CheckParameterExist(d, KList(b.param_names), TRUE)
    IN  IF ~chk.value.all_exist
        THEN [block |-> b,
              r |-> Raise("AssertionError",
                          Msg("%s not found in par_handler!", chk.value.not_exist.names))]
        ELSE LET values == GetParameter(d, KList(b.param_names)).value.items
             IN  [block |-> [b EXCEPT
                                !.param_values = values,
                                !.param_dict = ZipAssign(EmptyDict, b.param_names, values)],
                  r |-> Return(PyNone)]

\* _BlockBase.update_parameter_from_handler(par_handler): the stage after
\* the call and the outcome
UpdateParameterFromHandler(b, d) ==
    LET chk == CheckParameterExist(d, KList(b.param_names), TRUE)
    IN  IF ~chk.value.all_exist
        THEN [block |-> b,
              r |-> Raise("AssertionError",
                          Msg("%s not found in par_handler!", chk.value.not_exist.names))]
        ELSE LET got == GetParameter(d, KList(b.param_names))
                 values == got.value.items
             IN  [block |-> [b EXCEPT
                                !.param_values = values,
                                !.param_dict = ZipAssign(EmptyDict, b.param_names, values),
                                !.attrs = ZipAssign(b.attrs, b.param_names, values)],
                  r |-> Return(PyNone)]

\* a stage class's __init__ body after super().__init__(): the declared
\* parameter names are bound first, then input and output are set
Declare(d, names, input, output) ==
    LET bound == UpdateParameterFromHandler([BlockBase EXCEPT !.param_names = names], d)
    IN  IF bound.r.outcome = "raise" THEN bound
        ELSE [block |-> [bound.block EXCEPT !.input = input, !.output = output],
              r |-> bound.r]

\* EnergySpec.__init__ : no parameters, no binding
EnergySpec(d, lower, upper) ==
    [block |-> [BlockBase EXCEPT !.attrs = [x \in {"lower", "upper"} |->
                                              IF x = "lower" THEN lower ELSE upper],
                                 !.input = <<"sim_size">>, !.output = <<"energy">>],
     r |-> Return(PyNone)]

QuenchingFano(d) == Declare(d, <<"w", "lindhard", "fano">>, <<"energy">>, <<"Nq">>)

Ionization(d) == Declare(d, <<"ex_ion_ratio">>, <<"Nq">>, <<"Ni">>)

mTI(d) ==
    Declare(d, <<"w", "ex_ion_ratio", "gamma", "omega", "delta", "field",
                 "q0", "q1", "q2", "q3">>, <<"energy">>, <<"recomb">>)

\* Recomb.__init__ : no parameters, no binding
Recomb(d) ==
    [block |-> [BlockBase EXCEPT !.input = <<"Nq", "Ni", "recomb">>,
                                 !.output = <<"Nph", "Ne">>],
     r |-> Return(PyNone)]

(***************************************************************************)
(* Model (model.py)                                                        *)
(***************************************************************************)
\* a _BlockBase subclass that declares no parameter, only input and output
Stage(input, output) ==
    [block |-> [BlockBase EXCEPT !.input = input, !.output = output],
     r |-> Return(PyNone)]

\* block(par_handler, *args, **kwargs) for the stage classes of block.py,
\* and for three further subclasses: one without input, one without
\* output, one that reads a signal twice
NewBlock(cls, d, lower, upper) ==
    CASE cls = "EnergySpec"    -> EnergySpec(d, lower, upper)
      [] cls = "QuenchingFano" -> QuenchingFano(d)
      [] cls = "Ionization"    -> Ionization(d)
      [] cls = "mTI"           -> mTI(d)
      [] cls = "Recomb"        -> Recomb(d)
      [] cls = "Source"        -> Stage(<<>>, <<"energy">>)
      [] cls = "Sink"          -> Stage(<<"Nph", "Ne">>, <<>>)
      [] cls = "Twice"         -> Stage(<<"Nq", "Nq">>, <<"Ni", "recomb">>)

\* the active_blocks of XENON1T_ERmTIModel.__init__
XENON1T_ERmTIModel_active_blocks ==
    <<"EnergySpec", "QuenchingFano", "Ionization", "mTI", "Recomb">>

\* Model.__init__ : self.blocks[block.__name__] = block(par_handler, ...)
\* for each entry; a dict, so iteration follows first insertion
RECURSIVE ModelBlocks(_, _, _, _, _)
ModelBlocks(acc, active, d, lower, upper) ==
    IF active = <<>> THEN acc
    ELSE LET cls == Head(active)
             obj == NewBlock(cls, d, lower, upper).block
         IN  ModelBlocks([order |-> IF cls \in Range(acc.order) THEN acc.order
                                    ELSE Append(acc.order, cls),
                          obj |-> DictSet(acc.obj, cls, obj)],
                         Tail(active), d, lower, upper)

NoBlocks == [order |-> <<>>, obj |-> EmptyDict]

XENON1T_ERmTIModel(d, lower_e, upper_e) ==
    ModelBlocks(NoBlocks, XENON1T_ERmTIModel_active_blocks, d, lower_e, upper_e)

\* Model.update_parameter_from_handler : every block in turn; the first
\* failure propagates and leaves the blocks before it rebound
RECURSIVE UpdateBlocks(_, _, _)
UpdateBlocks(bs, todo, d) ==
    IF todo = <<>> THEN [blocks |-> bs, r |-> Return(PyNone)]
    ELSE LET u == UpdateParameterFromHandler(bs.obj[Head(todo)], d)
         IN  IF u.r.outcome = "raise" THEN [blocks |-> bs, r |-> u.r]
             ELSE UpdateBlocks([bs EXCEPT !.obj[Head(todo)] = u.block], Tail(todo), d)

ModelUpdateParameterFromHandler(bs, d) == UpdateBlocks(bs, bs.order, d)

\* the inner loops of get_network_edges pairing input k with output k
EdgesOfZipped(name, input, output) ==
    [k \in 1..(IF Len(input) < Len(output) THEN Len(input) ELSE Len(output)) |->
        <<input[k], output[k], name>>]

\* the inner loops of get_network_edges for one stage:
\* for i in _input: for o in _output: edges.append([i, o, edge_name])
EdgesOf(name, input, output) ==
    [k \in 1..(Len(input) * Len(output)) |->
        <<input[((k - 1) \div Len(output)) + 1], output[((k - 1) % Len(output)) + 1], name>>]

\* the outer loop of get_network_edges over the stage names todo
RECURSIVE EdgesLoop(_, _, _)
EdgesLoop(acc, bs, todo) ==
    IF todo = <<>> THEN acc
    ELSE LET name == Head(todo)
         IN  EdgesLoop(acc \o EdgesOf(name, bs.obj[name].input, bs.obj[name].output),
                       bs, Tail(todo))

\* Model.get_network_edges()
GetNetworkEdges(bs) == EdgesLoop(<<>>, bs, bs.order)

(***************************************************************************)
(* The parameter store in use: any sequence of calls on one store          *)
(***************************************************************************)
\* simulate is not running, truncated_normal has not been called
NoRun == pc = "idle" /\ env = EmptyDict /\ calls = <<>> /\ ret = <<>>

NoDraw == [called |-> FALSE]

\* no interpolation table has been constructed
NoTables == lin = NoDraw /\ grid = NoDraw

NoCall == [keys |-> KOther, vals |-> VNone, flag |-> FALSE, r |-> Return(PyNone)]

StoreInit ==
    /\ store = ParameterHandlerInit
    /\ res = NoCall
    /\ op = "init"
    /\ blocks = NoBlocks
    /\ rebound = {}
    /\ NoRun /\ edges = <<>> /\ tn = NoDraw /\ gen = NoDraw /\ NoTables

Get(keys) ==
    /\ res' = [keys |-> keys, vals |-> VNone, flag |-> FALSE,
               r |-> GetParameter(store, keys)]
    /\ op' = "get"
    /\ UNCHANGED <<store, blocks, rebound, simVars, edges, tn, gen, interpVars>>

Set(keys, vals) ==
    LET s == SetParameter(store, keys, vals)
    IN  /\ store' = s.store
        /\ res' = [keys |-> keys, vals |-> vals, flag |-> FALSE, r |-> s.r]
        /\ op' = "set"
        /\ UNCHANGED <<blocks, rebound, simVars, edges, tn, gen, interpVars>>

Exist(keys, flag) ==
    /\ res' = [keys |-> keys, vals |-> VNone, flag |-> flag,
               r |-> CheckParameterExist(store, keys, flag)]
    /\ op' = "exist"
    /\ UNCHANGED <<store, blocks, rebound, simVars, edges, tn, gen, interpVars>>

\* a stage that declares the names ns is bound to the store
Bind(ns) ==
    LET u == UpdateParameterFromHandler([BlockBase EXCEPT !.param_names = ns], store)
    IN  /\ res' = [keys |-> KList(ns), vals |-> VNone, flag |-> FALSE,
                   r |-> IF u.r.outcome = "raise" THEN u.r
                         ELSE Return([t |-> "block", block |-> u.block])]
        /\ op' = "bind"
        /\ UNCHANGED <<store, blocks, rebound, simVars, edges, tn, gen, interpVars>>

SetCalls(pool) ==
    \/ \E keys \in StrArgs(pool) \cup ListArgs(pool) \cup {KOther}, vals \in ValArgs :
          Set(keys, vals)
    \/ \E keys \in DictArgs(pool), vals \in DictVals : Set(keys, vals)

StoreNext ==
    \/ \E keys \in KeyArgs(SetPool) : Get(keys)
    \/ SetCalls(SetPool)

Spec == StoreInit /\ [][StoreNext]_vars

\* the same store, asked for names most of which it does not hold
MissingNext ==
    \/ \E keys \in KeyArgs(MissingPool) : Get(keys)
    \/ SetCalls(MissingPool)
    \/ \E keys \in KeyArgs(MissingPool), flag \in BOOLEAN : Exist(keys, flag)
    \/ \E ns \in NameLists(MissingPool) : Bind(ns)

SpecMissing == StoreInit /\ [][MissingNext]_vars

(***************************************************************************)
(* A model and its store: sets on the store between bindings               *)
(***************************************************************************)
\* the energy range the model is built with (units of 1e-4 keV)
LowerE == 50

UpperE == 400

BindInit ==
    /\ store = ParameterHandlerInit
    /\ res = NoCall
    /\ op = "init"
    /\ blocks = XENON1T_ERmTIModel(ParameterHandlerInit, LowerE, UpperE)
    /\ rebound = {}
    /\ NoRun /\ edges = <<>> /\ tn = NoDraw /\ gen = NoDraw /\ NoTables

\* any set_parameter call on the store the model was built from
StoreSet(keys, vals) ==
    /\ store' = SetParameter(store, keys, vals).store
    /\ op' = "set"
    /\ rebound' = {}
    /\ UNCHANGED <<res, blocks, simVars, edges, tn, gen, interpVars>>

StoreSetCalls ==
    \/ \E keys \in StrArgs(SetPool) \cup ListArgs(SetPool), vals \in ValArgs :
          StoreSet(keys, vals)
    \/ \E keys \in DictArgs(SetPool), vals \in DictVals : StoreSet(keys, vals)

\* Model.update_parameter_from_handler(par_handler)
ModelUpdate ==
    LET u == ModelUpdateParameterFromHandler(blocks, store)
    IN  /\ blocks' = u.blocks
        /\ op' = "update"
        /\ rebound' = IF u.r.outcome = "return" THEN Range(blocks.order) ELSE {}
        /\ UNCHANGED <<store, res, simVars, edges, tn, gen, interpVars>>

\* self.blocks[name].update_parameter_from_handler(par_handler)
BlockUpdate(name) ==
    LET u == UpdateParameterFromHandler(blocks.obj[name], store)
    IN  /\ blocks' = [blocks EXCEPT !.obj[name] = u.block]
        /\ op' = "update"
        /\ rebound' = IF u.r.outcome = "return" THEN {name} ELSE {}
        /\ UNCHANGED <<store, res, simVars, edges, tn, gen, interpVars>>

BindNext ==
    \/ StoreSetCalls
    \/ ModelUpdate
    \/ \E name \in Range(blocks.order) : BlockUpdate(name)

SpecBind == BindInit /\ [][BindNext]_vars

(***************************************************************************)
(* Claims about the parameter store and the binding of stages              *)
(***************************************************************************)
\* the value the call res pairs with position i of its names
PairedVal(c, i) ==
    IF c.keys.t = "str" THEN c.vals.num
    ELSE IF c.keys.t = "dict" THEN c.keys.vals[i]
    ELSE c.vals.items[i]

\* position i is where the list ns names ns[i] for the last time
LastOccurrence(ns, i) == \A j \in (i + 1)..Len(ns) : ns[j] # ns[i]

\* C1: after a successful set_parameter (single-name, list or dict form, the
\* dict form taking the values of the mapping and ignoring vals),
\* get_parameter of each name set returns the value set for it, as a single
\* name and as a list of one name; a name listed more than once holds the
\* value of its last occurrence.
C1_RoundTrip ==
    (op = "set" /\ res.r.outcome = "return") =>
        \A i \in 1..Len(res.keys.names) :
            LastOccurrence(res.keys.names, i) =>
                /\ GetParameter(store, KStr(res.keys.names[i]))
                       = Return([t |-> "num", items |-> <<PairedVal(res, i)>>])
                /\ GetParameter(store, KList(<<res.keys.names[i]>>))
                       = Return([t |-> "array", items |-> <<PairedVal(res, i)>>])

\* a dict of two names was set, with a vals argument beside it that
\* disagrees with the mapping
C1_Witness ==
    /\ op = "set" /\ res.r.outcome = "return"
    /\ res.keys.t = "dict" /\ Len(res.keys.names) = 2
    /\ res.vals = VList(<<2, 1>>)
    /\ store["w"] = 2 /\ store["fano"] = 1

\* the names a call asked for that the store does not hold
Absent(c) == {n \in Range(c.keys.names) : n \notin DOMAIN store}

\* C2: get_parameter, set_parameter and the binding of a stage, asked for at
\* least one name the store does not hold, fail, and the failure names every
\* absent name asked for and no name that is present.
C2_MissingDetected ==
    (op \in {"get", "set", "bind"} /\ Absent(res) # {}) =>
        /\ res.r.outcome = "raise"
        /\ res.r.exc = "AssertionError"
        /\ Range(res.r.msg.names) = Absent(res)

\* a stage declaring one present and one absent name, or two absent names,
\* failed to bind: here two absent names
C2_Witness ==
    /\ op = "bind" /\ res.r.outcome = "raise"
    /\ Cardinality(Absent(res)) = 2

\* C3: whatever set_parameter calls were made, the store holds exactly the
\* names it was constructed with.
C3_NamesFixed == DOMAIN store = DOMAIN ParameterHandlerInit

\* a set naming an unknown parameter has failed on a store that earlier sets
\* had changed
C3_Witness ==
    /\ op = "set" /\ res.r.outcome = "raise"
    /\ "typo" \in Range(res.keys.names)
    /\ store # ParameterHandlerInit

\* C4: a set_parameter call that fails leaves every value of the store as
\* it was.
C4_FailedSetChangesNothing ==
    [][(op' = "set" /\ res'.r.outcome = "raise") => store' = store]_vars

\* a list of two known names was set with a single value and failed
C4_Witness ==
    /\ op = "set" /\ res.r.outcome = "raise"
    /\ res.keys = KList(<<"w", "fano">>)
    /\ res.vals = VList(<<1>>)

\* every declared parameter of stage b is bound to the value d holds: in
\* param_values, in param_dict and as an attribute
BoundTo(b, d) ==
    /\ Len(b.param_values) = Len(b.param_names)
    /\ DOMAIN b.param_dict = Range(b.param_names)
    /\ \A i \in 1..Len(b.param_names) :
          LET n == b.param_names[i]
          IN  /\ b.param_values[i] = d[n]
              /\ b.param_dict[n] = d[n]
              /\ n \in DOMAIN b.attrs /\ b.attrs[n] = d[n]

\* C5: a set_parameter call on the store changes no stage; a successful
\* update_parameter_from_handler binds every declared parameter of each
\* stage it is called on to the store's value at that time, and changes no
\* other stage.
C5_BoundOnlyOnBinding ==
    [][/\ op' = "set" => blocks' = blocks
       /\ op' = "update" =>
            \A name \in Range(blocks.order) :
                IF name \in rebound'
                THEN BoundTo(blocks'.obj[name], store')
                ELSE blocks'.obj[name] = blocks.obj[name]]_vars

\* QuenchingFano was rebound to a value that had been set, and the store was
\* set again afterwards
C5_Witness ==
    /\ op = "set"
    /\ blocks.obj["QuenchingFano"].attrs["w"] = 2
    /\ store["w"] = 1
    /\ blocks.obj["mTI"].attrs["w"] = ParameterHandlerInit["w"]

\* C9: check_parameter_exist(names, return_not_exist=True) returns
\* (all_exist, missing) with all_exist true exactly when every name asked
\* for is held, and missing the list of exactly the names asked for that are
\* absent, in the single-name form as in the list and dict forms.
C9_ExistReturnsMissingList ==
    (op = "exist" /\ res.flag /\ res.keys.t # "other") =>
        /\ res.r.outcome = "return"
        /\ res.r.value.t = "pair"
        /\ res.r.value.all_exist = (Absent(res) = {})
        /\ res.r.value.not_exist
             = [t |-> "list",
                names |-> SelectSeq(res.keys.names, LAMBDA n : n \notin DOMAIN store)]

(***************************************************************************)
(* Samplers (generator.py).  A sampler is the set of batches it can        *)
(* return.  A normal draw is any value of a window around the mean (the    *)
(* mean itself when std is 0); a binomial draw is any count the            *)
(* distribution gives a positive probability.                              *)
(***************************************************************************)
\* 1.0 in units of 1e-4
One == 10000

\* how far from its mean a normal draw is taken, in steps
Spread == 1

\* the batches whose element i is drawn from the set Ds[i]
Batches(Ds) ==
    {t \in [1..Len(Ds) -> UNION Range(Ds)] : \A i \in 1..Len(Ds) : t[i] \in Ds[i]}

\* tf.clip_by_value(x, lo, hi)
ClipByValue(x, lo, hi) == IF x < lo THEN lo ELSE IF x > hi THEN hi ELSE x

\* normal(mean, std), one element, on a grid of the given step
Normal(mean, std_is_zero, step) ==
    IF std_is_zero THEN {mean}
    ELSE {mean + k * step : k \in (0 - Spread)..Spread}

\* binomial(counts, probs), one element: probs is clipped into [0, 1]; no
\* trial, or probability 0, gives 0, and probability 1 gives counts
Binomial(counts, probs) ==
    LET p == ClipByValue(probs, 0, One)
    IN  IF counts <= 0 \/ p <= 0 THEN {0}
        ELSE IF p >= One THEN {counts}
        ELSE 0..counts

\* uniform(minval, maxval), one element: a value of [minval, maxval)
Uniform(minval, maxval, step) ==
    {x \in minval..(maxval - 1) : (x - minval) % step = 0}

\* an absent (None) and a given truncation bound
NoBound == [given |-> FALSE, v |-> 0]

Bound(v) == [given |-> TRUE, v |-> v]

\* the lower tf.where with its branches exchanged
ClampLowerExchanged(x, vmin) == IF x <= vmin THEN x ELSE vmin

\* tf.where(rv <= vmin, vmin, rv), one element
ClampLower(x, vmin) == IF x <= vmin THEN vmin ELSE x

\* tf.where(rv >= vmax, vmax, rv), one element
ClampUpper(x, vmax) == IF x >= vmax THEN vmax ELSE x

\* truncated_normal after its draw rv = normal(mean, std, shape)
TruncatedNormal(rv, vmin, vmax) ==
    IF vmin.given /\ vmax.given /\ ~(vmin.v < vmax.v)
    THEN Raise("AssertionError", Msg("vmin must be smaller than vmax!", <<>>))
    ELSE LET rv1 == IF vmin.given
                    THEN [i \in 1..Len(rv) |-> ClampLower(rv[i], vmin.v)] ELSE rv
             rv2 == IF vmax.given
                    THEN [i \in 1..Len(rv1) |-> ClampUpper(rv1[i], vmax.v)] ELSE rv1
         IN  Return([t |-> "tensor", items |-> rv2])

(***************************************************************************)
(* The stages' simulate (block.py): the batches a stage can return         *)
(***************************************************************************)
\* the spacing of the energies drawn (units of 1e-4 keV)
EnergyStep == 250

\* a / b to the nearest integer, for b > 0
RoundDiv(a, b) == (2 * a + b) \div (2 * b)

\* EnergySpec.simulate(sim_size)
EnergySpecSimulate(b, sim_size) ==
    Batches([i \in 1..sim_size |-> Uniform(b.attrs["lower"], b.attrs["upper"], EnergyStep)])

\* QuenchingFano.simulate, one element: the rounded normal draw around
\* energy / w, its std zero when energy / w * fano is, then the binomial
QuenchingFanoDraw(b, energy) ==
    LET Nq_avg == RoundDiv(energy, b.attrs["w"])
        Nq == Normal(Nq_avg, energy * b.attrs["fano"] = 0, 1)
    IN  UNION {Binomial(x, b.attrs["lindhard"]) : x \in Nq}

QuenchingFanoSimulate(b, energy) ==
    Batches([i \in 1..Len(energy) |-> QuenchingFanoDraw(b, energy[i])])

\* Ionization.simulate(Nq) : binomial(Nq, 1 / (1 + ex_ion_ratio))
IonizationSimulate(b, Nq) ==
    Batches([i \in 1..Len(Nq) |->
                Binomial(Nq[i], (One * One) \div (One + b.attrs["ex_ion_ratio"]))])

\* the normal draws of mTI.simulate.  get_mean_recomb and get_std_recomb
\* are closed forms in exp and log of the energy; their values are left
\* open, and the draw is any point of a grid from below 0 to above 1.
RecombDraws == {(k * One) \div 2 : k \in -1..3}

\* mTI.simulate(energy) : truncated_normal(mean, std, vmin=0., vmax=1.0)
mTISimulate(b, energy) ==
    {TruncatedNormal(rv, Bound(0), Bound(One)).value.items :
        rv \in Batches([i \in 1..Len(energy) |-> RecombDraws])}

\* Recomb.simulate returning Ni - Ne for the photons
RecombSimulateFromNi(b, Nq, Ni, recomb) ==
    {<<[i \in 1..Len(Nq) |-> Ni[i] - Ne[i]], Ne>> :
        Ne \in Batches([i \in 1..Len(Ni) |-> Binomial(Ni[i], One - recomb[i])])}

\* Recomb.simulate(Nq, Ni, recomb) : the pairs (Nq - Ne, Ne)
RecombSimulate(b, Nq, Ni, recomb) ==
    {<<[i \in 1..Len(Nq) |-> Nq[i] - Ne[i]], Ne>> :
        Ne \in Batches([i \in 1..Len(Ni) |-> Binomial(Ni[i], One - recomb[i])])}

(***************************************************************************)
(* XENON1T_ERmTIModel.simulate, one stage call per step                    *)
(***************************************************************************)
\* largest batch
MaxBatch == 1

\* simulate's calls with Recomb given (Nq, recomb, Ni)
SimulateCallsRecombArgsExchanged ==
    << [stage |-> "EnergySpec",    args |-> <<"sim_size">>,          outs |-> <<"energy">>],
       [stage |-> "QuenchingFano", args |-> <<"energy">>,            outs |-> <<"Nq">>],
       [stage |-> "Ionization",    args |-> <<"Nq">>,                outs |-> <<"Ni">>],
       [stage |-> "mTI",           args |-> <<"energy">>,            outs |-> <<"recomb">>],
       [stage |-> "Recomb",        args |-> <<"Nq", "recomb", "Ni">>, outs |-> <<"Nph", "Ne">>] >>

\* the statements of simulate: the stage called, the variables passed and
\* the variables assigned
SimulateCalls ==
    << [stage |-> "EnergySpec",    args |-> <<"sim_size">>,          outs |-> <<"energy">>],
       [stage |-> "QuenchingFano", args |-> <<"energy">>,            outs |-> <<"Nq">>],
       [stage |-> "Ionization",    args |-> <<"Nq">>,                outs |-> <<"Ni">>],
       [stage |-> "mTI",           args |-> <<"energy">>,            outs |-> <<"recomb">>],
       [stage |-> "Recomb",        args |-> <<"Nq", "Ni", "recomb">>, outs |-> <<"Nph", "Ne">>] >>

\* the stores a model is built from: the defaults, and the defaults after
\* one set_parameter
SimStores ==
    {ParameterHandlerInit,
     SetParameter(ParameterHandlerInit, KStr("lindhard"), VNum(One \div 2)).store,
     SetParameter(ParameterHandlerInit, KStr("ex_ion_ratio"), VNum(0)).store,
     SetParameter(ParameterHandlerInit, KStr("fano"), VNum(0)).store}

SimInit ==
    /\ store \in SimStores
    /\ res = NoCall
    /\ op = "init"
    /\ blocks = XENON1T_ERmTIModel(store, LowerE, UpperE)
    /\ rebound = {}
    /\ NoRun /\ edges = <<>> /\ tn = NoDraw /\ gen = NoDraw /\ NoTables

\* statement k done: the stage is logged and the next statement is due
Called(k, next) ==
    /\ calls' = Append(calls, SimulateCalls[k])
    /\ pc' = next
    /\ UNCHANGED <<storeVars, ret, edges, tn, gen, interpVars>>

\* model(sim_size)
Start(sim_size) ==
    /\ pc \in {"idle", "done"}
    /\ pc' = "EnergySpec"
    /\ env' = [x \in {"sim_size"} |-> sim_size]
    /\ calls' = <<>>
    /\ ret' = <<>>
    /\ UNCHANGED <<storeVars, edges, tn, gen, interpVars>>

CallEnergySpec ==
    /\ pc = "EnergySpec"
    /\ LET c == SimulateCalls[1]
       IN  \E out \in EnergySpecSimulate(blocks.obj[c.stage], env[c.args[1]]) :
               env' = DictSet(env, c.outs[1], out)
    /\ Called(1, "QuenchingFano")

CallQuenchingFano ==
    /\ pc = "QuenchingFano"
    /\ LET c == SimulateCalls[2]
       IN  \E out \in QuenchingFanoSimulate(blocks.obj[c.stage], env[c.args[1]]) :
               env' = DictSet(env, c.outs[1], out)
    /\ Called(2, "Ionization")

CallIonization ==
    /\ pc = "Ionization"
    /\ LET c == SimulateCalls[3]
       IN  \E out \in IonizationSimulate(blocks.obj[c.stage], env[c.args[1]]) :
               env' = DictSet(env, c.outs[1], out)
    /\ Called(3, "mTI")

CallmTI ==
    /\ pc = "mTI"
    /\ LET c == SimulateCalls[4]
       IN  \E out \in mTISimulate(blocks.obj[c.stage], env[c.args[1]]) :
               env' = DictSet(env, c.outs[1], out)
    /\ Called(4, "Recomb")

CallRecomb ==
    /\ pc = "Recomb"
    /\ LET c == SimulateCalls[5]
       IN  \E out \in RecombSimulate(blocks.obj[c.stage], env[c.args[1]],
                                      env[c.args[2]], env[c.args[3]]) :
               env' = DictSet(DictSet(env, c.outs[1], out[1]), c.outs[2], out[2])
    /\ Called(5, "return")

\* return Nph, Ne
ReturnPair ==
    /\ pc = "return"
    /\ ret' = <<env["Nph"], env["Ne"]>>
    /\ pc' = "done"
    /\ UNCHANGED <<storeVars, env, calls, edges, tn, gen, interpVars>>

SimNext ==
    \/ \E sim_size \in 1..MaxBatch : Start(sim_size)
    \/ CallEnergySpec
    \/ CallQuenchingFano
    \/ CallIonization
    \/ CallmTI
    \/ CallRecomb
    \/ ReturnPair

SpecSim == SimInit /\ [][SimNext]_vars

\* C6: in every run of simulate the returned pair (Nph, Ne) has one element
\* per sample, Nph + Ne = Nq for the Nq that QuenchingFano returned in that
\* run, Nph and Ne are non-negative, and 0 <= Ne <= Ni <= Nq.
C6_Conservation ==
    pc = "done" =>
        /\ Len(ret[1]) = env["sim_size"] /\ Len(ret[2]) = env["sim_size"]
        /\ \A i \in 1..env["sim_size"] :
              /\ ret[1][i] + ret[2][i] = env["Nq"][i]
              /\ ret[1][i] >= 0 /\ ret[2][i] >= 0
              /\ ret[2][i] <= env["Ni"][i] /\ env["Ni"][i] <= env["Nq"][i]

\* a run returned photons and electrons, with some ions recombined and
\* some quanta that were never ions
C6_Witness ==
    /\ pc = "done"
    /\ ret[2][1] >= 1
    /\ ret[2][1] < env["Ni"][1] /\ env["Ni"][1] < env["Nq"][1]

\* the signals the stages called before call k declare as outputs
ProducedBefore(k) ==
    {"sim_size"} \cup UNION {Range(blocks.obj[calls[j].stage].output) : j \in 1..(k - 1)}

\* C7: simulate calls the five stages once each in the order EnergySpec,
\* QuenchingFano, Ionization, mTI, Recomb; each call passes exactly the
\* signals the stage declares as input, in that order, each of them
\* sim_size or an output of a stage called earlier.
C7_PipelineOrder ==
    LET order == <<"EnergySpec", "QuenchingFano", "Ionization", "mTI", "Recomb">>
    IN  /\ Len(calls) <= Len(order)
        /\ \A k \in 1..Len(calls) :
              /\ calls[k].stage = order[k]
              /\ calls[k].args = blocks.obj[calls[k].stage].input
              /\ calls[k].outs = blocks.obj[calls[k].stage].output
              /\ Range(calls[k].args) \subseteq ProducedBefore(k)
        /\ pc \in {"return", "done"} => Len(calls) = Len(order)

\* a run came to its end
C7_Witness == pc = "done" /\ Len(calls) = 5 /\ calls[5].stage = "Recomb"

(***************************************************************************)
(* get_network_edges on the models built from up to MaxBlocks stages       *)
(***************************************************************************)
\* longest active_blocks list, the five-stage model apart
MaxBlocks == 2

StageClasses ==
    {"EnergySpec", "QuenchingFano", "Ionization", "mTI", "Recomb",
     "Source", "Sink", "Twice"}

EdgesInit ==
    /\ store = ParameterHandlerInit
    /\ res = NoCall
    /\ op = "init"
    /\ \E active \in SeqsUpTo(StageClasses, MaxBlocks)
                      \cup {XENON1T_ERmTIModel_active_blocks} :
          blocks = ModelBlocks(NoBlocks, active, store, LowerE, UpperE)
    /\ rebound = {}
    /\ NoRun /\ edges = <<>> /\ tn = NoDraw /\ gen = NoDraw /\ NoTables

GetEdges ==
    /\ edges' = GetNetworkEdges(blocks)
    /\ op' = "edges"
    /\ UNCHANGED <<store, res, blocks, rebound, simVars, tn, gen, interpVars>>

EdgesNext == GetEdges

SpecEdges == EdgesInit /\ [][EdgesNext]_vars

\* C8: get_network_edges returns, for every stage the model holds, the
\* pairs of its declared inputs and outputs tagged with its name, and
\* nothing else: as many edges tagged with a stage as it has inputs times
\* outputs (none for a stage without inputs or without outputs).
C8_EdgesAreProducts ==
    op = "edges" =>
        /\ Range(edges) =
              UNION {{<<i, o, name>> : i \in Range(blocks.obj[name].input),
                                       o \in Range(blocks.obj[name].output)} :
                     name \in Range(blocks.order)}
        /\ \A name \in Range(blocks.order) :
              Cardinality({k \in 1..Len(edges) : edges[k][3] = name})
                = Len(blocks.obj[name].input) * Len(blocks.obj[name].output)

\* the edges of the five-stage model: Recomb alone gives six of the ten
C8_Witness ==
    /\ op = "edges"
    /\ blocks.order = XENON1T_ERmTIModel_active_blocks
    /\ Len(edges) = 10

(***************************************************************************)
(* truncated_normal on any batch of draws                                  *)
(***************************************************************************)
\* longest batch drawn
MaxShape == 2

\* vmin and vmax: None, 0, 0.5 or 1
TruncBounds == {NoBound} \cup {Bound((k * One) \div 2) : k \in 0..2}

TruncInit ==
    /\ store = ParameterHandlerInit
    /\ res = NoCall
    /\ op = "init"
    /\ blocks = NoBlocks
    /\ rebound = {}
    /\ NoRun /\ edges = <<>> /\ tn = NoDraw /\ gen = NoDraw /\ NoTables

\* truncated_normal(mean, std, shape, vmin, vmax) whose normal draw is rv
TruncatedNormalCall(rv, vmin, vmax) ==
    /\ tn' = [called |-> TRUE, vmin |-> vmin, vmax |-> vmax, rv |-> rv,
              r |-> TruncatedNormal(rv, vmin, vmax)]
    /\ op' = "truncated_normal"
    /\ UNCHANGED <<store, res, blocks, rebound, simVars, edges, gen, interpVars>>

TruncNext ==
    \E n \in 1..MaxShape, vmin \in TruncBounds, vmax \in TruncBounds :
        \E rv \in Batches([i \in 1..n |-> RecombDraws]) : TruncatedNormalCall(rv, vmin, vmax)

SpecTrunc == TruncInit /\ [][TruncNext]_vars

\* C10: truncated_normal with vmin = a < b = vmax returns a batch whose
\* every element lies in [a, b]: a where the draw was at or below a, b
\* where it was at or above b, the draw itself in between; with both
\* bounds given and a >= b the call fails.
C10_TruncationBounds ==
    (tn.called /\ tn.vmin.given /\ tn.vmax.given) =>
        IF tn.vmin.v < tn.vmax.v
        THEN /\ tn.r.outcome = "return"
             /\ Len(tn.r.value.items) = Len(tn.rv)
             /\ \A i \in 1..Len(tn.rv) :
                   LET x == tn.rv[i]
                       y == tn.r.value.items[i]
                   IN  /\ tn.vmin.v <= y /\ y <= tn.vmax.v
                       /\ x <= tn.vmin.v => y = tn.vmin.v
                       /\ x >= tn.vmax.v => y = tn.vmax.v
                       /\ (tn.vmin.v < x /\ x < tn.vmax.v) => y = x
        ELSE tn.r.outcome = "raise" /\ tn.r.exc = "AssertionError"

\* a batch with one draw below vmin and one above vmax was truncated
C10_Witness ==
    /\ tn.called /\ tn.r.outcome = "return"
    /\ tn.vmin = Bound(0) /\ tn.vmax = Bound(One)
    /\ Len(tn.rv) = 2 /\ tn.rv[1] < 0 /\ tn.rv[2] > One

(***************************************************************************)
(* The shape of a sampler's output                                         *)
(*                                                                         *)
(* A tensor shape is the sequence of its dimensions, <<>> for a scalar.    *)
(* The shape argument of a sampler is None or a non-empty list of          *)
(* dimensions.                                                             *)
(***************************************************************************)
\* highest rank of a parameter
MaxRank == 2

\* largest dimension of a parameter
MaxDim == 3

TensorShapes == SeqsUpTo(1..MaxDim, MaxRank)

\* shape=None
ShapeNone == [given |-> FALSE, dims |-> <<>>]

\* shape=dims
ShapeList(dims) == [given |-> TRUE, dims |-> dims]

ShapeArgs == {ShapeNone, ShapeList(<<3>>), ShapeList(<<2, 3>>)}

Samplers == {"normal", "uniform", "binomial", "truncated_normal"}

Max(a, b) == IF a >= b THEN a ELSE b

\* shape x with leading dimensions of 1 up to rank n
PadLeft(x, n) == [i \in 1..n |-> IF i <= n - Len(x) THEN 1 ELSE x[i - (n - Len(x))]]

\* tf.broadcast_static_shape(x, y): the dimensions are paired from the last
\* one, a missing one is 1; a pair must be equal or hold a 1
BroadcastStaticShape(x, y) ==
    LET n  == Max(Len(x), Len(y))
        px == PadLeft(x, n)
        py == PadLeft(y, n)
    IN  IF \A i \in 1..n : px[i] = 1 \/ py[i] = 1 \/ px[i] = py[i]
        THEN Return([i \in 1..n |-> IF px[i] = 1 THEN py[i] ELSE px[i]])
        ELSE Raise("ValueError", Msg("Incompatible shapes for broadcasting", <<>>))

\* the shape argument placed after the broadcast shape
OutputShapeTrailing(shape, broadcast_shape) ==
    IF ~shape.given THEN broadcast_shape ELSE broadcast_shape \o shape.dims

\* if shape is None: shape = broadcast_shape
\* else: shape = tf.concat([shape, broadcast_shape], axis=0)
OutputShape(shape, broadcast_shape) ==
    IF ~shape.given THEN broadcast_shape ELSE shape.dims \o broadcast_shape

\* tf.random.stateless_normal(shape, seed, mean, std) and
\* tf.random.stateless_uniform(shape, seed, minval, maxval): a draw of the
\* shape scaled and shifted by the parameters, rnd * p2 + p1
StatelessScaled(shape, p1, p2) ==
    LET scaled == BroadcastStaticShape(shape, p2)
    IN  IF scaled.outcome = "raise" THEN scaled
        ELSE BroadcastStaticShape(scaled.value, p1)

\* tf.random.stateless_binomial(shape, seed, counts, probs): counts and
\* probs must broadcast to the shape, which is the shape of the output
StatelessBinomial(shape, counts, probs) ==
    LET b == BroadcastStaticShape(counts, probs)
    IN  IF b.outcome = "raise" THEN b
        ELSE IF LET c == BroadcastStaticShape(shape, b.value)
                IN  c.outcome = "return" /\ c.value = shape
        THEN Return(shape)
        ELSE Raise("InvalidArgumentError", Msg("Shape passed in must be broadcastable with counts and probs", <<>>))

\* the shape of normal(mean, std, shape)
NormalShape(mean, std, shape) ==
    LET broadcast_shape == BroadcastStaticShape(mean, std)
    IN  IF broadcast_shape.outcome = "raise" THEN broadcast_shape
        ELSE StatelessScaled(OutputShape(shape, broadcast_shape.value), mean, std)

\* the shape of uniform(minval, maxval, shape)
UniformShape(minval, maxval, shape) ==
    LET broadcast_shape == BroadcastStaticShape(minval, maxval)
    IN  IF broadcast_shape.outcome = "raise" THEN broadcast_shape
        ELSE StatelessScaled(OutputShape(shape, broadcast_shape.value), minval, maxval)

\* the shape of binomial(counts, probs, shape); tf.clip_by_value keeps the
\* shape of probs
BinomialShape(counts, probs, shape) ==
    LET broadcast_shape == BroadcastStaticShape(counts, probs)
    IN  IF broadcast_shape.outcome = "raise" THEN broadcast_shape
        ELSE StatelessBinomial(OutputShape(shape, broadcast_shape.value), counts, probs)

\* the shape of truncated_normal(mean, std, shape, vmin, vmax) with
\* vmin < vmax: tf.where against a single value keeps the shape of rv
TruncatedNormalShape(mean, std, shape) == NormalShape(mean, std, shape)

SamplerShape(sampler, p1, p2, shape) ==
    CASE sampler = "normal"           -> NormalShape(p1, p2, shape)
      [] sampler = "uniform"          -> UniformShape(p1, p2, shape)
      [] sampler = "binomial"         -> BinomialShape(p1, p2, shape)
      [] sampler = "truncated_normal" -> TruncatedNormalShape(p1, p2, shape)

\* the arguments of the call to come
ShapeInit ==
    /\ store = ParameterHandlerInit
    /\ res = NoCall
    /\ op = "init"
    /\ blocks = NoBlocks
    /\ rebound = {}
    /\ NoRun /\ edges = <<>> /\ tn = NoDraw /\ NoTables
    /\ gen \in [called : {FALSE}, sampler : Samplers, p1 : TensorShapes,
                p2 : TensorShapes, shape : ShapeArgs, r : {Return(<<>>)}]

\* sampler(p1, p2, shape)
SamplerCall ==
    /\ ~gen.called
    /\ gen' = [gen EXCEPT !.called = TRUE,
                          !.r = SamplerShape(gen.sampler, gen.p1, gen.p2, gen.shape)]
    /\ op' = gen.sampler
    /\ UNCHANGED <<store, res, blocks, rebound, simVars, edges, tn, interpVars>>

ShapeNext == SamplerCall

SpecShape == ShapeInit /\ [][ShapeNext]_vars

\* dimension k of shape x counted from the last one, 1 where x has none
FromLast(x, k) == IF k <= Len(x) THEN x[Len(x) - k + 1] ELSE 1

\* the two shapes agree, or one of them is 1, in every trailing dimension
BroadcastCompatible(x, y) ==
    \A k \in 1..Max(Len(x), Len(y)) :
        FromLast(x, k) = FromLast(y, k) \/ FromLast(x, k) = 1 \/ FromLast(y, k) = 1

\* out is lead followed by the broadcast shape of x and y
IsLeadThenBroadcast(out, lead, x, y) ==
    LET n == Max(Len(x), Len(y))
    IN  /\ Len(out) = Len(lead) + n
        /\ \A i \in 1..Len(lead) : out[i] = lead[i]
        /\ \A k \in 1..n : FromLast(out, k) = Max(FromLast(x, k), FromLast(y, k))

\* C11: a two-parameter sampler called with broadcast-compatible parameter
\* shapes returns a tensor of their broadcast shape when shape is None and
\* of the given shape followed by their broadcast shape when a shape is
\* given; with incompatible parameter shapes the call fails.
C11_BroadcastShapeLaw ==
    gen.called =>
        IF BroadcastCompatible(gen.p1, gen.p2)
        THEN /\ gen.r.outcome = "return"
             /\ IsLeadThenBroadcast(gen.r.value, gen.shape.dims, gen.p1, gen.p2)
        ELSE gen.r.outcome = "raise"

\* binomial with counts of shape (2, 1), probs of shape (2,) and
\* shape=[2, 3] returned a tensor of shape (2, 3, 2, 2)
C11_Witness ==
    /\ gen.called /\ gen.sampler = "binomial"
    /\ gen.p1 = <<2, 1>> /\ gen.p2 = <<2>> /\ gen.shape = ShapeList(<<2, 3>>)
    /\ gen.r.outcome = "return" /\ gen.r.value = <<2, 3, 2, 2>>

(***************************************************************************)
(* Linear1D                                                                *)
(*                                                                         *)
(* Reference values are fixed-point like the parameters; reference and     *)
(* query positions are whole numbers.  Indices are those of the code,      *)
(* from 0.                                                                 *)
(***************************************************************************)
\* most reference points of a table
MaxRef == 3

\* where the reference points lie
RefPoints == {0, 2, 4}

\* the values stored at them
RefValues == {0, One, 3 * One}

\* where the queries lie: below, at, between and above the reference points
QueryPoints == -1..5

\* the batches of queries
QueryBatches == {<<q>> : q \in QueryPoints} \cup {<<-1, 5>>, <<2, 3>>}

\* tf.gather(params, indices)
Gather(params, indices) == [i \in 1..Len(indices) |-> params[indices[i] + 1]]

\* tf.argsort(values): the orders that sort the values ascending; equal
\* values come in either order
Argsort(values) ==
    {order \in [1..Len(values) -> 0..(Len(values) - 1)] :
        /\ \A i, j \in 1..Len(values) : i # j => order[i] # order[j]
        /\ \A i \in 1..(Len(values) - 1) :
              values[order[i] + 1] <= values[order[i + 1] + 1]}

\* the reference values left in the order given
Linear1DRefValuesAsGiven(values, order) == values

\* self.ref_values = tf.gather(self.ref_values, order)
Linear1DRefValues(values, order) == Gather(values, order)

\* Linear1D.__init__(points, values) when tf.argsort returns order
Linear1D(points, values, order) ==
    [called |-> TRUE, points |-> points, values |-> values,
     num_ref |-> Len(points),
     ref_points |-> Gather(points, order),
     ref_values |-> Linear1DRefValues(values, order),
     r |-> IF Len(points) > 2 THEN Return(PyNone)
           ELSE Raise("AssertionError",
                      Msg("Number of reference points must be larger than 2!", <<>>)),
     queried |-> FALSE, q |-> <<>>, ind |-> <<>>, out |-> <<>>]

\* ind = tf.reduce_sum(tf.cast(dr>=0, dtype=tf.int32), axis=-1) for one query
RightIndex(ref_points, point) ==
    Cardinality({i \in 1..Len(ref_points) : point - ref_points[i] >= 0})

\* tf.clip_by_value(t, lo, hi) of one number
Clip(t, lo, hi) == IF t < lo THEN lo ELSE IF t > hi THEN hi ELSE t

\* the clipped pair (ind-1, ind) of every query
Linear1DIndices(t, points) ==
    [n \in 1..Len(points) |->
        LET ind == RightIndex(t.ref_points, points[n])
        IN  <<Clip(ind - 1, 0, t.num_ref - 1), Clip(ind, 0, t.num_ref - 1)>>]

\* Linear1D.interp(points) of the table t, given the clipped index pairs
Linear1DInterp(t, points, ind) ==
    [n \in 1..Len(points) |->
        LET x0 == t.ref_points[ind[n][1] + 1]
            x1 == t.ref_points[ind[n][2] + 1]
            y0 == t.ref_values[ind[n][1] + 1]
            y1 == t.ref_values[ind[n][2] + 1]
            dx == x1 - x0
        IN  IF dx = 0 THEN t.ref_values[ind[n][1] + 1]
            ELSE ((x1 - points[n]) * y0 + (points[n] - x0) * y1) \div dx]

LinearInit ==
    /\ store = ParameterHandlerInit
    /\ res = NoCall
    /\ op = "init"
    /\ blocks = NoBlocks
    /\ rebound = {}
    /\ NoRun /\ edges = <<>> /\ tn = NoDraw /\ gen = NoDraw /\ NoTables

\* Linear1D(points, values)
Linear1DNew ==
    /\ ~lin.called
    /\ \E n \in 2..MaxRef :
        \E points \in [1..n -> RefPoints], values \in [1..n -> RefValues] :
            \E order \in Argsort(points) : lin' = Linear1D(points, values, order)
    /\ op' = "Linear1D"
    /\ UNCHANGED <<store, res, blocks, rebound, simVars, edges, tn, gen, grid>>

\* table.interp(points)
Linear1DCall ==
    /\ lin.called /\ lin.r.outcome = "return" /\ ~lin.queried
    /\ \E points \in QueryBatches :
          LET ind == Linear1DIndices(lin, points)
          IN  lin' = [lin EXCEPT !.queried = TRUE, !.q = points, !.ind = ind,
                                 !.out = Linear1DInterp(lin, points, ind)]
    /\ op' = "interp"
    /\ UNCHANGED <<store, res, blocks, rebound, simVars, edges, tn, gen, grid>>

LinearNext == Linear1DNew \/ Linear1DCall

SpecLinear == LinearInit /\ [][LinearNext]_vars

\* the values the table was given at position x
StoredAt(t, x) == {t.values[i] : i \in {j \in 1..Len(t.points) : t.points[j] = x}}

\* the smallest and the largest reference point of the table as given
Smallest(t) == CHOOSE x \in Range(t.points) : \A y \in Range(t.points) : x <= y

Largest(t) == CHOOSE x \in Range(t.points) : \A y \in Range(t.points) : x >= y

\* C12: a Linear1D table needs more than two reference points, in any
\* order.  A query at a reference point returns the value stored there, a
\* query below the smallest reference point the value stored at the
\* smallest, a query at or above the largest the value stored at the
\* largest, and both bracket indices of every query lie in [0, N-1].
C12_Linear1DExactAndClamped ==
    /\ (lin.called /\ lin.r.outcome = "return") => Len(lin.points) > 2
    /\ (lin.called /\ lin.queried) =>
          /\ Len(lin.out) = Len(lin.q)
          /\ \A n \in 1..Len(lin.q) :
                /\ lin.ind[n][1] \in 0..(Len(lin.points) - 1)
                /\ lin.ind[n][2] \in 0..(Len(lin.points) - 1)
                /\ lin.q[n] \in Range(lin.points) => lin.out[n] \in StoredAt(lin, lin.q[n])
                /\ lin.q[n] < Smallest(lin) => lin.out[n] \in StoredAt(lin, Smallest(lin))
                /\ lin.q[n] >= Largest(lin) => lin.out[n] \in StoredAt(lin, Largest(lin))

\* a table given in descending order, queried below its smallest and above
\* its largest reference point, where linear extrapolation would give -0.5
\* and 4
C12_Witness ==
    /\ lin.called /\ lin.queried
    /\ lin.points = <<4, 2, 0>> /\ lin.values = <<3 * One, One, 0>>
    /\ lin.q = <<-1, 5>> /\ lin.out = <<0, 3 * One>>

(***************************************************************************)
(* NN_LinearGrid                                                           *)
(*                                                                         *)
(* Positions and reference values are whole numbers.  The values tensor    *)
(* is a function of the index tuples (one index from 0 per axis).  A       *)
(* weight 1/distance is kept in units of 1/100, rounded down, and the      *)
(* result of interp is the fraction num/den of the two sums the code       *)
(* divides.  One point is queried per call.                                *)
(***************************************************************************)
\* most points on an axis
MaxPoints == 3

\* the numbers of axes of a table
GridDims == {1, 2}

\* [ax_lower, ax_upper, ax_n_points]
Axis(lower, upper, n_points) == [lower |-> lower, upper |-> upper, n_points |-> n_points]

\* axes of step 2 from 0 and of step 4 from -2
GridAxes ==
    {Axis(0, 2 * (n - 1), n) : n \in 1..MaxPoints}
        \cup {Axis(-2, -2 + 4 * (n - 1), n) : n \in 1..MaxPoints}

GridBinnings == UNION {[1..d -> GridAxes] : d \in GridDims}

\* the index tuples of a tensor of the binning's shape
GridIndices(binning) ==
    {idx \in [1..Len(binning) -> 0..(MaxPoints - 1)] :
        \A i \in 1..Len(binning) : idx[i] < binning[i].n_points}

GridValues == {0, 3}

\* the values tensors of the binning's shape: one value for every
\* combination of even and odd indices, so that the corners of every cell
\* hold values chosen freely
GridTensors(binning) ==
    {[idx \in GridIndices(binning) |-> c[[i \in 1..Len(binning) |-> idx[i] % 2]]] :
        c \in [[1..Len(binning) -> {0, 1}] -> GridValues]}

\* 2^n
Pow2(n) == IF n = 0 THEN 1 ELSE IF n = 1 THEN 2 ELSE IF n = 2 THEN 4 ELSE 8

\* the offset matrix whose first column never changes
MagicIndShiftFirstAxisFixed(dim) ==
    [r \in 1..Pow2(dim) |->
        [i \in 1..dim |-> IF i = 1 THEN 1
                          ELSE IF ((r - 1) % Pow2(i)) < Pow2(i - 1) THEN 1 ELSE 0]]

\* self._magic_ind_shift: column i (from 0) is the list
\* ([1]*(2**i)+[0]*(2**i))*(2**(self.dim-i-1)), rows and columns from 1 here
MagicIndShift(dim) ==
    [r \in 1..Pow2(dim) |->
        [i \in 1..dim |-> IF ((r - 1) % Pow2(i)) < Pow2(i - 1) THEN 1 ELSE 0]]

\* NN_LinearGrid.__init__(values, binning)
NN_LinearGrid(values, binning) ==
    IF \E i \in 1..Len(binning) : binning[i].n_points = 1
    THEN [called |-> TRUE, binning |-> binning,
          r |-> Raise("ZeroDivisionError", Msg("division by zero", <<>>)),
          queried |-> FALSE]
    ELSE [called |-> TRUE, binning |-> binning,
          r |-> Return(PyNone),
          queried |-> FALSE,
          ref_values |-> values,
          dim |-> Len(binning),
          lowers |-> [i \in 1..Len(binning) |-> binning[i].lower],
          stepsize |-> [i \in 1..Len(binning) |->
                           (binning[i].upper - binning[i].lower)
                               \div (binning[i].n_points - 1)],
          num_bins |-> [i \in 1..Len(binning) |-> binning[i].n_points - 1],
          magic_ind_shift |-> MagicIndShift(Len(binning))]

\* tf.cast(a / b, tf.int32) for b > 0: the quotient rounded towards zero
CastInt32(a, b) == IF a >= 0 THEN a \div b ELSE -((-a) \div b)

\* the cell index clipped into [0, num_bins]
CellIndexUpToNumBins(t, points) ==
    [i \in 1..t.dim |->
        Clip(CastInt32(points[i] - t.lowers[i], t.stepsize[i]), 0, t.num_bins[i])]

\* ind = tf.clip_by_value(tf.cast((points - self.lowers) / self.stepsize,
\*                                tf.int32), 0, self.num_bins-1)
CellIndex(t, points) ==
    [i \in 1..t.dim |->
        Clip(CastInt32(points[i] - t.lowers[i], t.stepsize[i]), 0, t.num_bins[i] - 1)]

\* NN_LinearGrid._get_nn_indices(points): ind + self._magic_ind_shift
GetNNIndices(t, points) ==
    LET ind == CellIndex(t, points)
    IN  [r \in 1..Len(t.magic_ind_shift) |->
            [i \in 1..t.dim |-> ind[i] + t.magic_ind_shift[r][i]]]

RECURSIVE SumSeq(_)
\* tf.math.reduce_sum(s, axis=0)
SumSeq(s) == IF s = <<>> THEN 0 ELSE Head(s) + SumSeq(Tail(s))

\* 100/sqrt(dr2) rounded down, for the squared distances that occur
InverseDistance ==
    [dr2 \in 1..(2 * (4 * MaxPoints + 3) * (4 * MaxPoints + 3)) |->
        CHOOSE w \in 0..100 : w * w <= 10000 \div dr2 /\ (w + 1) * (w + 1) > 10000 \div dr2]

\* 1. / tf.clip_by_value(tf.sqrt(dr2), 1e-6, float('inf')) in units of
\* 1/100: 1e6 at distance 0
Weight(dr2) == IF dr2 = 0 THEN 100000000 ELSE InverseDistance[dr2]

\* NN_LinearGrid.interp(points) given the corner indices ind
GridInterp(t, points, ind) ==
    IF \E r \in 1..Len(ind) : ind[r] \notin DOMAIN t.ref_values
    THEN Raise("InvalidArgumentError", Msg("indices out of bounds", <<>>))
    ELSE LET ref_pos == [r \in 1..Len(ind) |->
                            [i \in 1..t.dim |-> t.lowers[i] + t.stepsize[i] * ind[r][i]]]
             dr2     == [r \in 1..Len(ind) |->
                            SumSeq([i \in 1..t.dim |->
                                (points[i] - ref_pos[r][i]) * (points[i] - ref_pos[r][i])])]
             weights == [r \in 1..Len(ind) |-> Weight(dr2[r])]
             vals    == [r \in 1..Len(ind) |-> t.ref_values[ind[r]]]
         IN  Return([num |-> SumSeq([r \in 1..Len(ind) |-> vals[r] * weights[r]]),
                     den |-> SumSeq(weights)])

\* the points queried on an axis: from 3 below its lower to 3 above its upper
GridQueries(binning) ==
    {q \in [1..Len(binning) -> -5..(4 * MaxPoints + 1)] :
        \A i \in 1..Len(binning) :
            binning[i].lower - 3 <= q[i] /\ q[i] <= binning[i].upper + 3}

GridInit ==
    /\ store = ParameterHandlerInit
    /\ res = NoCall
    /\ op = "init"
    /\ blocks = NoBlocks
    /\ rebound = {}
    /\ NoRun /\ edges = <<>> /\ tn = NoDraw /\ gen = NoDraw /\ NoTables

\* NN_LinearGrid(values, binning)
NN_LinearGridNew ==
    /\ ~grid.called
    /\ \E binning \in GridBinnings :
        \E values \in GridTensors(binning) : grid' = NN_LinearGrid(values, binning)
    /\ op' = "NN_LinearGrid"
    /\ UNCHANGED <<store, res, blocks, rebound, simVars, edges, tn, gen, lin>>

\* table.interp([points])
NN_LinearGridCall ==
    /\ grid.called /\ grid.r.outcome = "return" /\ ~grid.queried
    /\ \E points \in GridQueries(grid.binning) :
          LET ind == GetNNIndices(grid, points)
          IN  grid' = [queried |-> TRUE, q |-> points,
                       cell |-> CellIndex(grid, points), ind |-> ind,
                       out |-> GridInterp(grid, points, ind)] @@ grid
    /\ op' = "interp"
    /\ UNCHANGED <<store, res, blocks, rebound, simVars, edges, tn, gen, lin>>

GridNext == NN_LinearGridNew \/ NN_LinearGridCall

SpecGrid == GridInit /\ [][GridNext]_vars

\* the upper end of axis i of the table
GridUpper(t, i) == t.binning[i].upper

\* the corners of the cell whose lowest corner is k
CornersOf(k) == {[i \in DOMAIN k |-> k[i] + b[i]] : b \in [DOMAIN k -> {0, 1}]}

RECURSIVE SumOver(_, _)
\* the sum of f over the set S
SumOver(f, S) ==
    IF S = {} THEN 0
    ELSE LET x == CHOOSE y \in S : TRUE IN f[x] + SumOver(f, S \ {x})

\* the cells of the table: the index tuples of their lowest corners
CellsOf(t) == {k \in [1..t.dim -> 0..(MaxPoints - 2)] : \A i \in 1..t.dim : k[i] < t.num_bins[i]}

\* the midpoint of cell k (every step is even)
MidpointOf(t, k) ==
    [i \in 1..t.dim |-> t.lowers[i] + t.stepsize[i] * k[i] + t.stepsize[i] \div 2]

\* out, a fraction, is the simple average of the values at the corners of
\* cell k
IsCornerAverage(t, out, k) ==
    out.num * Cardinality(CornersOf(k)) = out.den * SumOver(t.ref_values, CornersOf(k))

\* C13 as stated: there are a grid, corner values and a cell midpoint at
\* which the result of NN_LinearGrid.interp differs from the simple average
\* of the values at the cell's corners (among the tables that can be
\* constructed, once one has been).
C13_SomeMidpointDiffers ==
    (grid.called /\ grid.r.outcome = "return") =>
        \E binning \in GridBinnings :
            \E values \in GridTensors(binning) :
                LET t == NN_LinearGrid(values, binning)
                IN  /\ t.r.outcome = "return"
                    /\ \E k \in CellsOf(t) :
                          LET points == MidpointOf(t, k)
                              out == GridInterp(t, points, GetNNIndices(t, points))
                          IN  out.outcome = "return" /\ ~IsCornerAverage(t, out.value, k)

\* C13, amended: at the midpoint of a grid cell all 2^D corners are at the
\* same distance, so NN_LinearGrid.interp returns the simple average of the
\* values at the cell's corners.
C13_MidpointIsCornerAverage ==
    (grid.called /\ grid.queried) =>
        \A k \in CellsOf(grid) :
            grid.q = MidpointOf(grid, k) =>
                /\ grid.out.outcome = "return"
                /\ IsCornerAverage(grid, grid.out.value, k)

\* the midpoint of a cell of a two-axis table with steps 2 and 4 whose
\* corners hold 0, 3, 3, 3: the result is 9/4
C13_Witness ==
    /\ grid.called /\ grid.queried
    /\ grid.binning = <<Axis(0, 4, 3), Axis(-2, 2, 2)>>
    /\ grid.q = MidpointOf(grid, <<1, 0>>)
    /\ \E idx \in CornersOf(<<1, 0>>) :
          /\ grid.ref_values[idx] = 0
          /\ \A other \in CornersOf(<<1, 0>>) \ {idx} : grid.ref_values[other] = 3
    /\ grid.out.outcome = "return"
    /\ grid.out.value.num * 4 = grid.out.value.den * 9

\* C14: the offset matrix has 2^D rows, pairwise distinct, which are all
\* the D-bit patterns.  For every query point, inside the table's domain or
\* not, the cell index lies in [0, n_points-2] on every axis, the 2^D corner
\* indices are pairwise distinct, lie in [0, n_points-1] on every axis and
\* are the corners of that cell, and a query point inside the domain lies
\* inside the cell.
C14_CornersInBounds ==
    /\ (grid.called /\ grid.r.outcome = "return") =>
          LET shift == grid.magic_ind_shift
              bits  == [1..grid.dim -> {0, 1}]
          IN  /\ Len(shift) = Cardinality(bits)
              /\ \A r1, r2 \in 1..Len(shift) : r1 # r2 => shift[r1] # shift[r2]
              /\ Range(shift) = bits
    /\ (grid.called /\ grid.queried) =>
          /\ \A i \in 1..grid.dim :
                /\ grid.cell[i] \in 0..(grid.binning[i].n_points - 2)
                /\ (\A j \in 1..grid.dim :
                        grid.binning[j].lower <= grid.q[j] /\ grid.q[j] <= GridUpper(grid, j))
                   => /\ grid.lowers[i] + grid.stepsize[i] * grid.cell[i] <= grid.q[i]
                      /\ grid.q[i] <= grid.lowers[i] + grid.stepsize[i] * (grid.cell[i] + 1)
          /\ Len(grid.ind) = Cardinality([1..grid.dim -> {0, 1}])
          /\ \A r1, r2 \in 1..Len(grid.ind) : r1 # r2 => grid.ind[r1] # grid.ind[r2]
          /\ \A r \in 1..Len(grid.ind) : \A i \in 1..grid.dim :
                grid.ind[r][i] \in 0..(grid.binning[i].n_points - 1)
          /\ Range(grid.ind) = CornersOf(grid.cell)
          /\ grid.out.outcome = "return"

\* a query below the first axis by less than a step, where rounding towards
\* zero gives 0 and floor would give -1, and above the second axis
C14_Witness ==
    /\ grid.called /\ grid.queried
    /\ grid.binning = <<Axis(0, 4, 3), Axis(-2, 6, 3)>>
    /\ grid.q = <<-1, 9>>
    /\ grid.cell = <<0, 1>>
    /\ Range(grid.ind) = {<<0, 1>>, <<1, 1>>, <<0, 2>>, <<1, 2>>}

====
